---- MODULE Spec2Model ----
(***************************************************************************)
(* A model of ts-simplify-types: the classifier of src/simplify.ts         *)
(* (simplifyType), its copy in src/index.ts (processType) and the          *)
(* line-mode stream pipeline of src/index.ts (processFile, run).           *)
(*                                                                         *)
(* JavaScript values are tagged tuples; an object is the sequence of its   *)
(* own properties <<key, value>> in insertion order, which is the order    *)
(* `for ... in`, the spread and JSON.stringify enumerate (no property name *)
(* of the model is integer-like).  A property holding `undefined` is a     *)
(* property: it is enumerated and spread, and only JSON.stringify skips it.*)
(***************************************************************************)
EXTENDS Integers, Sequences, FiniteSets, TLC

VARIABLES
    type,       \* the object JSON.parse built, as the calls of simplifyType leave it
    raw,        \* the record as parsed, before any call (history)
    results,    \* the outcomes of the successive simplifyType(type) calls
    ptype,      \* the equal record handed to processType, as that call leaves it
    presult,    \* the outcome of processType, <<>> before the call
    input,      \* pipeline: the chunks of the whole input file (history)
    lines,      \* pipeline: the chunks split() has yet to emit, in file order
    toParse,    \* pipeline: chunks emitted by split(), waiting for the JSON stage
    toProcess,  \* pipeline: parsed objects waiting for the processElement stage
    toFrame,    \* pipeline: results waiting for the framing stage
    ended,      \* pipeline: how many stages have ended (0..4)
    sawError,   \* pipeline: the JSON stage's latch (line 65)
    first,      \* pipeline: the framing stage's flag (line 107)
    written,    \* pipeline: the chunks that reached the output stream, in order
    emitted,    \* pipeline: the objects the framing stage stringified (history)
    dropped,    \* pipeline: the chunks logged as "Dropping" (history)
    itemCount,  \* pipeline: run's counter (line 386)
    status      \* "idle" (no run), or the run: "running", then "Done", "Error" or "Crashed"

vars == <<type, raw, results, ptype, presult, input, lines, toParse, toProcess,
          toFrame, ended, sawError, first, written, emitted, dropped,
          itemCount, status>>

engineVars == <<type, raw, results, ptype, presult>>
pipeVars == <<input, lines, toParse, toProcess, toFrame, ended, sawError, first,
              written, emitted, dropped, itemCount, status>>

-----------------------------------------------------------------------------
(* JavaScript values *)

Undefined == <<"undefined">>
Num(n) == <<"number", n>>
Str(s) == <<"string", s>>
Bool(b) == <<"boolean", b>>
Arr(a) == <<"array", a>>
Obj(o) == <<"object", o>>

\* ToBoolean: undefined, 0, "" and false are falsy; arrays and objects are truthy.
Truthy(v) ==
    CASE v[1] = "undefined" -> FALSE
      [] v[1] = "number" -> v[2] # 0
      [] v[1] = "string" -> v[2] # ""
      [] v[1] = "boolean" -> v[2]
      [] OTHER -> TRUE

Has(o, k) == \E i \in 1..Len(o) : o[i][1] = k

\* o.k : undefined when o has no such property
Get(o, k) ==
    IF Has(o, k) THEN o[CHOOSE i \in 1..Len(o) : o[i][1] = k][2] ELSE Undefined

\* o.k = v : an existing property keeps its place, a new one goes last
Set(o, k, v) ==
    IF Has(o, k)
    THEN LET i == CHOOSE j \in 1..Len(o) : o[j][1] = k
         IN SubSeq(o, 1, i - 1) \o <<<<k, v>>>> \o SubSeq(o, i + 1, Len(o))
    ELSE Append(o, <<k, v>>)

Keys(o) == [i \in 1..Len(o) |-> o[i][1]]

\* An object literal { k: v, ...o, k2: v2 }: its entries are applied left to
\* right; P is a property, S a spread of all own properties of o.
P(k, v) == <<k, v>>
S(o) == <<"...", o>>

\* ...o : every own property of o is assigned in o's order, so the properties
\* acc already has keep their place and take o's value, and the others follow.
Assign(acc, o) ==
    [i \in 1..Len(acc) |->
        IF Has(o, acc[i][1]) THEN <<acc[i][1], Get(o, acc[i][1])>> ELSE acc[i]]
    \o SelectSeq(o, LAMBDA e : ~Has(acc, e[1]))

RECURSIVE LitFrom(_, _)
LitFrom(acc, es) ==
    IF es = <<>> THEN acc
    ELSE LitFrom(IF es[1][1] = "..." THEN Assign(acc, es[1][2])
                 ELSE Set(acc, es[1][1], es[1][2]), Tail(es))

Lit(es) == LitFrom(<<>>, es)

\* a ?? b
Nullish(a, b) == IF a = Undefined THEN b ELSE a

\* Array.prototype.length / includes, String.prototype.startsWith / endsWith
Length(v) == Len(v[2])
Includes(v, s) == \E i \in 1..Len(v[2]) : v[2][i] = Str(s)
StartsWith(s, p) == Len(s) >= Len(p) /\ SubSeq(s, 1, Len(p)) = p
EndsWith(s, p) == Len(s) >= Len(p) /\ SubSeq(s, Len(s) - Len(p) + 1, Len(s)) = p

Return(o) == <<"return", o>>
Throw(e) == <<"throw", e>>
Returned(r) == r[1] = "return"

-----------------------------------------------------------------------------
(* src/simplify.ts *)

ToUpperCase(c) ==
    CASE c = "a" -> "A" [] c = "b" -> "B" [] c = "c" -> "C" [] c = "d" -> "D"
      [] c = "e" -> "E" [] c = "f" -> "F" [] c = "g" -> "G" [] c = "h" -> "H"
      [] c = "i" -> "I" [] c = "j" -> "J" [] c = "k" -> "K" [] c = "l" -> "L"
      [] c = "m" -> "M" [] c = "n" -> "N" [] c = "o" -> "O" [] c = "p" -> "P"
      [] c = "q" -> "Q" [] c = "r" -> "R" [] c = "s" -> "S" [] c = "t" -> "T"
      [] c = "u" -> "U" [] c = "v" -> "V" [] c = "w" -> "W" [] c = "x" -> "X"
      [] c = "y" -> "Y" [] c = "z" -> "Z" [] OTHER -> c

\* name[0].toUpperCase() + name.substring(1)
firstToUpper(name) == ToUpperCase(SubSeq(name, 1, 1)) \o SubSeq(name, 2, Len(name))

\* name.replace(/^__/, "")
StripUnderscores(name) ==
    IF StartsWith(name, "__") THEN SubSeq(name, 3, Len(name)) ELSE name

IsDigit(c) == c \in {"0", "1", "2", "3", "4", "5", "6", "7", "8", "9"}

\* /^__@([^@]+)@\d+$/.exec(name): the label, or Undefined when there is no
\* match.  The label holds no "@", so it ends at the first "@" after "__@".
KnownSymbolMatch(name) ==
    IF ~StartsWith(name, "__@") THEN Undefined
    ELSE LET rest == SubSeq(name, 4, Len(name))
             ats == {i \in 1..Len(rest) : SubSeq(rest, i, i) = "@"}
         IN IF ats = {} THEN Undefined
            ELSE LET p == CHOOSE i \in ats : \A j \in ats : i <= j
                 IN IF /\ p > 1
                       /\ p < Len(rest)
                       /\ \A j \in (p + 1)..Len(rest) : IsDigit(SubSeq(rest, j, j))
                    THEN Str(SubSeq(rest, 1, p - 1))
                    ELSE Undefined

\* type.name ? "Aliased" + kind : kind
makeAliasedKindIfNamed(t, kind) ==
    IF Truthy(Get(t, "name")) THEN Str("Aliased" \o kind) ELSE Str(kind)

\* node && { path: node.path, line: node.start?.line, char: node.start?.character }
LocationOf(node) ==
    IF ~Truthy(node) THEN node
    ELSE LET start == Get(node[2], "start")
         IN Obj(Lit(<<
                P("path", Get(node[2], "path")),
                P("line", IF start = Undefined THEN Undefined ELSE Get(start[2], "line")),
                P("char", IF start = Undefined THEN Undefined ELSE Get(start[2], "character"))
            >>))

\* Lines 28-48: the assignments simplifyTypeHelper makes to its argument.
\* Every one of them creates the property when the record has none.
simplifyPreprocess(t) ==
    LET t1 == Set(t, "name", Get(t, "symbolName"))
        t2 == Set(t1, "symbolName", Undefined)
        node == Nullish(Get(t2, "destructuringPattern"),
                        Nullish(Get(t2, "referenceLocation"), Get(t2, "firstDeclaration")))
        t3 == Set(t2, "destructuringPattern", Undefined)
        t4 == Set(t3, "referenceLocation", Undefined)
        t5 == Set(t4, "firstDeclaration", Undefined)
        t6 == Set(t5, "location", LocationOf(node))
        t7 == Set(t6, "flags", Undefined)
        t8 == Set(t7, "display", Undefined)
    IN Set(t8, "recursionId", Undefined)

\* makeAnonymous(type, kind?) of lines 239-246; kind is Undefined when omitted
makeAnonymous(t, kind, display) ==
    Lit(<<
        P("kind", IF kind # Undefined THEN kind
                  ELSE Str("Anonymous" \o firstToUpper(StripUnderscores(Get(t, "name")[2])))),
        S(t),
        P("display", IF Truthy(Get(t, "location")) THEN Undefined ELSE display),
        P("name", Undefined)
    >>)

\* conditionalTrueType < 0 ? undefined : conditionalTrueType  (undefined < 0 is false)
NonNegative(v) == IF v[1] = "number" /\ v[2] < 0 THEN Undefined ELSE v

\* Lines 158-237 of simplifyTypeHelper: the rules that read `flags`.
\* flags.includes(...) raises a TypeError when the record had no flags.
simplifyByFlags(t, flags, display) ==
    IF flags = Undefined THEN Throw("TypeError")
    ELSE IF Includes(flags, "StringLiteral") THEN
        Return(Lit(<<P("kind", Str("StringLiteral")), P("value", display), S(t)>>))
    ELSE IF Includes(flags, "NumberLiteral") THEN
        Return(Lit(<<P("kind", Str("NumberLiteral")), P("value", display), S(t)>>))
    ELSE IF Includes(flags, "BigIntLiteral") THEN
        Return(Lit(<<P("kind", Str("BigIntLiteral")), P("value", display), S(t)>>))
    ELSE IF Includes(flags, "TypeParameter") THEN
        Return(Lit(<<P("kind", Str("TypeParameter")), S(t)>>))
    ELSE IF Includes(flags, "UniqueESSymbol") THEN
        Return(Lit(<<P("kind", Str("Unique")), S(t)>>))
    ELSE IF Get(t, "name") # Undefined /\ StartsWith(Get(t, "name")[2], "__@") THEN
        LET match == KnownSymbolMatch(Get(t, "name")[2])
        IN Return(Lit(<<P("kind", Str("KnownSymbol")), S(t),
                        P("name", IF match # Undefined THEN match ELSE Get(t, "name"))>>))
    ELSE IF Get(t, "name") \in {Str("__function"), Str("__type"), Str("__class"), Str("__object")} THEN
        Return(makeAnonymous(t, Undefined, display))
    ELSE IF Get(t, "name") = Str("__jsxAttributes") THEN
        Return(makeAnonymous(t, Str("JsxAttributesType"), display))
    ELSE IF Includes(flags, "Object") /\ Truthy(Get(t, "name")) THEN
        Return(Lit(<<P("kind", Str("Object")), S(t)>>))
    ELSE IF /\ Truthy(display)
            /\ StartsWith(display[2], "(props:")
            /\ EndsWith(display[2], "=> Element") THEN
        Return(Lit(<<P("kind", Str("JsxElementSignature")), S(t), P("display", display)>>))
    ELSE
        Return(Lit(<<P("kind", Str("Other")), S(t), P("display", display)>>))

\* Lines 50-156 of simplifyTypeHelper, then the flag rules; t is the record
\* after the assignments of lines 28-48.
simplifyClassify(t, isDestructuring, flags, display) ==
    IF Truthy(Get(t, "intrinsicName")) THEN
        Return(Lit(<<P("kind", Str("Intrinsic")), S(t),
                     P("name", Get(t, "intrinsicName")),
                     P("intrinsicName", Undefined)>>))
    ELSE IF Truthy(Get(t, "unionTypes")) THEN
        Return(Lit(<<P("kind", makeAliasedKindIfNamed(t, "Union")),
                     P("count", Num(Length(Get(t, "unionTypes")))),
                     P("types", Get(t, "unionTypes")),
                     S(t),
                     P("unionTypes", Undefined)>>))
    ELSE IF Truthy(Get(t, "intersectionTypes")) THEN
        Return(Lit(<<P("kind", makeAliasedKindIfNamed(t, "Intersection")),
                     P("count", Num(Length(Get(t, "intersectionTypes")))),
                     P("types", Get(t, "intersectionTypes")),
                     S(t),
                     P("intersectionTypes", Undefined)>>))
    ELSE IF Truthy(Get(t, "indexedAccessObjectType")) THEN
        Return(Lit(<<P("kind", makeAliasedKindIfNamed(t, "IndexedAccess")), S(t)>>))
    ELSE IF Truthy(Get(t, "keyofType")) THEN
        Return(Lit(<<P("kind", makeAliasedKindIfNamed(t, "IndexType")), S(t)>>))
    ELSE IF Truthy(Get(t, "isTuple")) THEN
        Return(Lit(<<P("kind", makeAliasedKindIfNamed(t, "Tuple")), S(t),
                     P("isTuple", Undefined)>>))
    ELSE IF Truthy(Get(t, "conditionalCheckType")) THEN
        Return(Lit(<<P("kind", makeAliasedKindIfNamed(t, "ConditionalType")), S(t),
                     P("conditionalTrueType", NonNegative(Get(t, "conditionalTrueType"))),
                     P("conditionalFalseType", NonNegative(Get(t, "conditionalFalseType")))>>))
    ELSE IF Truthy(Get(t, "substitutionBaseType")) THEN
        Return(Lit(<<P("kind", makeAliasedKindIfNamed(t, "SubstitutionType")),
                     P("originalType", Get(t, "substitutionBaseType")),
                     S(t),
                     P("substitutionBaseType", Undefined)>>))
    ELSE IF Truthy(Get(t, "reverseMappedSourceType")) THEN
        Return(Lit(<<P("kind", makeAliasedKindIfNamed(t, "ReverseMappedType")),
                     P("sourceType", Get(t, "reverseMappedSourceType")),
                     P("mappedType", Get(t, "reverseMappedMappedType")),
                     P("constraintType", Get(t, "reverseMappedConstraintType")),
                     S(t),
                     P("reverseMappedSourceType", Undefined),
                     P("reverseMappedMappedType", Undefined),
                     P("reverseMappedConstraintType", Undefined)>>))
    ELSE IF Truthy(Get(t, "aliasTypeArguments")) THEN
        Return(Lit(<<P("kind", Str("GenericTypeAlias")), S(t),
                     P("instantiatedType", Undefined),
                     P("aliasedType", Get(t, "instantiatedType")),
                     P("aliasedTypeTypeArguments", Get(t, "typeArguments"))>>))
    ELSE IF /\ Truthy(Get(t, "instantiatedType"))
            /\ Get(t, "typeArguments") # Undefined
            /\ Length(Get(t, "typeArguments")) # 0 THEN
        LET instantiatedIsSelf == Get(t, "instantiatedType") = Get(t, "id")
        IN Return(Lit(<<P("kind", IF instantiatedIsSelf THEN Str("GenericType")
                                  ELSE Str("GenericInstantiation")),
                        S(t),
                        P("instantiatedType", IF instantiatedIsSelf THEN Undefined
                                              ELSE Get(t, "instantiatedType"))>>))
    ELSE IF isDestructuring THEN
        Return(Lit(<<P("kind", Str("Destructuring")), S(t)>>))
    ELSE simplifyByFlags(t, flags, display)

\* simplifyTypeHelper(type): what it returns or raises.  The locals
\* isDestructuring, flags and display are read before the fields are cleared.
simplifyTypeHelper(t) ==
    simplifyClassify(simplifyPreprocess(t),
                     Truthy(Get(t, "destructuringPattern")),
                     Get(t, "flags"),
                     Get(t, "display"))

\* the copy loop without the two exclusions prop !== "location" and
\* prop !== "display"
simplifyCopyLoopAll(result, processed) ==
    Assign(result,
           SelectSeq(processed, LAMBDA e : ~Truthy(Get(result, e[1]))))

\* Lines 15-19: for (const prop in processed) if (!result[prop] && ...)
\* result[prop] = processed[prop].  processed names each property once, so
\* result[prop] is still the literal's value when the loop reaches prop.
simplifyCopyLoop(result, processed) ==
    Assign(result,
           SelectSeq(processed,
                     LAMBDA e : /\ ~Truthy(Get(result, e[1]))
                                /\ e[1] # "location"
                                /\ e[1] # "display"))

\* Lines 4-24: the property order of the returned object
simplifyReorder(processed) ==
    LET result == Lit(<<
            P("id", Get(processed, "id")),
            P("kind", Get(processed, "kind")),
            P("name", Get(processed, "name")),
            P("aliasTypeArguments", Get(processed, "aliasTypeArguments")),
            P("instantiatedType", Get(processed, "instantiatedType")),
            P("typeArguments", Get(processed, "typeArguments"))>>)
        copied == simplifyCopyLoop(result, processed)
    IN Set(Set(copied, "location", Get(processed, "location")),
           "display", Get(processed, "display"))

\* simplifyType(type): the outcome of the call
simplifyType(t) ==
    LET processed == simplifyTypeHelper(t)
    IN IF Returned(processed) THEN Return(simplifyReorder(processed[2])) ELSE processed

-----------------------------------------------------------------------------
(* src/index.ts: the classifier the pipeline runs *)

\* the kind with the Aliased prefix left out
processKindNeverAliased(t, kind) == Str(kind)

\* type.name ? "Aliased" + kind : kind  (lines 379-381)
processMakeAliasedKindIfNamed(t, kind) ==
    IF Truthy(Get(t, "name")) THEN Str("Aliased" \o kind) ELSE Str(kind)

\* Lines 168-188: the assignments processTypeHelper makes to its argument
processPreprocess(t) ==
    LET t1 == Set(t, "name", Get(t, "symbolName"))
        t2 == Set(t1, "symbolName", Undefined)
        node == Nullish(Get(t2, "destructuringPattern"),
                        Nullish(Get(t2, "referenceLocation"), Get(t2, "firstDeclaration")))
        t3 == Set(t2, "destructuringPattern", Undefined)
        t4 == Set(t3, "referenceLocation", Undefined)
        t5 == Set(t4, "firstDeclaration", Undefined)
        t6 == Set(t5, "location", LocationOf(node))
        t7 == Set(t6, "flags", Undefined)
        t8 == Set(t7, "display", Undefined)
    IN Set(t8, "recursionId", Undefined)

\* Lines 298-377 of processTypeHelper: the rules that read `flags`
processByFlags(t, flags, display) ==
    IF flags = Undefined THEN Throw("TypeError")
    ELSE IF Includes(flags, "StringLiteral") THEN
        Return(Lit(<<P("kind", Str("StringLiteral")), P("value", display), S(t)>>))
    ELSE IF Includes(flags, "NumberLiteral") THEN
        Return(Lit(<<P("kind", Str("NumberLiteral")), P("value", display), S(t)>>))
    ELSE IF Includes(flags, "BigIntLiteral") THEN
        Return(Lit(<<P("kind", Str("BigIntLiteral")), P("value", display), S(t)>>))
    ELSE IF Includes(flags, "TypeParameter") THEN
        Return(Lit(<<P("kind", Str("TypeParameter")), S(t)>>))
    ELSE IF Includes(flags, "UniqueESSymbol") THEN
        Return(Lit(<<P("kind", Str("Unique")), S(t)>>))
    ELSE IF Get(t, "name") = Str("__type") THEN
        Return(Lit(<<P("kind", Str("AnonymousType")), S(t),
                     P("display", IF Truthy(Get(t, "location")) THEN Undefined ELSE display),
                     P("name", Undefined)>>))
    ELSE IF Get(t, "name") = Str("__object") THEN
        Return(Lit(<<P("kind", Str("AnonymousObject")), S(t),
                     P("display", IF Truthy(Get(t, "location")) THEN Undefined ELSE display),
                     P("name", Undefined)>>))
    ELSE IF Includes(flags, "Object") /\ Truthy(Get(t, "name")) THEN
        Return(Lit(<<P("kind", Str("Object")), S(t)>>))
    ELSE IF /\ Truthy(display)
            /\ StartsWith(display[2], "(props:")
            /\ EndsWith(display[2], "=> Element") THEN
        Return(Lit(<<P("kind", Str("JsxElementSignature")), S(t), P("display", display)>>))
    ELSE
        Return(Lit(<<P("kind", Str("Other")), S(t), P("display", display)>>))

\* Lines 190-296 of processTypeHelper, then the flag rules
processClassify(t, isDestructuring, flags, display) ==
    IF Truthy(Get(t, "intrinsicName")) THEN
        Return(Lit(<<P("kind", Str("Intrinsic")), S(t),
                     P("name", Get(t, "intrinsicName")),
                     P("intrinsicName", Undefined)>>))
    ELSE IF Truthy(Get(t, "unionTypes")) THEN
        Return(Lit(<<P("kind", processMakeAliasedKindIfNamed(t, "Union")),
                     P("count", Num(Length(Get(t, "unionTypes")))),
                     P("types", Get(t, "unionTypes")),
                     S(t),
                     P("unionTypes", Undefined)>>))
    ELSE IF Truthy(Get(t, "intersectionTypes")) THEN
        Return(Lit(<<P("kind", processMakeAliasedKindIfNamed(t, "Intersection")),
                     P("count", Num(Length(Get(t, "intersectionTypes")))),
                     P("types", Get(t, "intersectionTypes")),
                     S(t),
                     P("intersectionTypes", Undefined)>>))
    ELSE IF Truthy(Get(t, "indexedAccessObjectType")) THEN
        Return(Lit(<<P("kind", processMakeAliasedKindIfNamed(t, "IndexedAccess")), S(t)>>))
    ELSE IF Truthy(Get(t, "keyofType")) THEN
        Return(Lit(<<P("kind", processMakeAliasedKindIfNamed(t, "IndexType")), S(t)>>))
    ELSE IF Truthy(Get(t, "isTuple")) THEN
        Return(Lit(<<P("kind", processMakeAliasedKindIfNamed(t, "Tuple")), S(t),
                     P("isTuple", Undefined)>>))
    ELSE IF Truthy(Get(t, "conditionalCheckType")) THEN
        Return(Lit(<<P("kind", processMakeAliasedKindIfNamed(t, "ConditionalType")), S(t),
                     P("conditionalTrueType", NonNegative(Get(t, "conditionalTrueType"))),
                     P("conditionalFalseType", NonNegative(Get(t, "conditionalFalseType")))>>))
    ELSE IF Truthy(Get(t, "substitutionBaseType")) THEN
        Return(Lit(<<P("kind", processMakeAliasedKindIfNamed(t, "SubstitutionType")),
                     P("originalType", Get(t, "substitutionBaseType")),
                     S(t),
                     P("substitutionBaseType", Undefined)>>))
    ELSE IF Truthy(Get(t, "reverseMappedSourceType")) THEN
        Return(Lit(<<P("kind", processMakeAliasedKindIfNamed(t, "ReverseMappedType")),
                     P("sourceType", Get(t, "reverseMappedSourceType")),
                     P("mappedType", Get(t, "reverseMappedMappedType")),
                     P("constraintType", Get(t, "reverseMappedConstraintType")),
                     S(t),
                     P("reverseMappedSourceType", Undefined),
                     P("reverseMappedMappedType", Undefined),
                     P("reverseMappedConstraintType", Undefined)>>))
    ELSE IF Truthy(Get(t, "aliasTypeArguments")) THEN
        Return(Lit(<<P("kind", Str("GenericTypeAlias")), S(t),
                     P("instantiatedType", Undefined),
                     P("aliasedType", Get(t, "instantiatedType")),
                     P("aliasedTypeTypeArguments", Get(t, "typeArguments"))>>))
    ELSE IF /\ Truthy(Get(t, "instantiatedType"))
            /\ Get(t, "typeArguments") # Undefined
            /\ Length(Get(t, "typeArguments")) # 0 THEN
        LET instantiatedIsSelf == Get(t, "instantiatedType") = Get(t, "id")
        IN Return(Lit(<<P("kind", IF instantiatedIsSelf THEN Str("GenericType")
                                  ELSE Str("GenericInstantiation")),
                        S(t),
                        P("instantiatedType", IF instantiatedIsSelf THEN Undefined
                                              ELSE Get(t, "instantiatedType"))>>))
    ELSE IF isDestructuring THEN
        Return(Lit(<<P("kind", Str("Destructuring")), S(t)>>))
    ELSE processByFlags(t, flags, display)

\* processTypeHelper(type): what it returns or raises
processTypeHelper(t) ==
    processClassify(processPreprocess(t),
                    Truthy(Get(t, "destructuringPattern")),
                    Get(t, "flags"),
                    Get(t, "display"))

\* Lines 155-159: for (const prop in processed) if (!result[prop] && ...)
\* result[prop] = processed[prop].  processed names each property once, so
\* result[prop] is still the literal's value when the loop reaches prop.
processCopyLoop(result, processed) ==
    Assign(result,
           SelectSeq(processed,
                     LAMBDA e : /\ ~Truthy(Get(result, e[1]))
                                /\ e[1] # "location"
                                /\ e[1] # "display"))

\* Lines 144-162: the property order of the returned object
processReorder(processed) ==
    LET result == Lit(<<
            P("id", Get(processed, "id")),
            P("kind", Get(processed, "kind")),
            P("name", Get(processed, "name")),
            P("aliasTypeArguments", Get(processed, "aliasTypeArguments")),
            P("instantiatedType", Get(processed, "instantiatedType")),
            P("typeArguments", Get(processed, "typeArguments"))>>)
        copied == processCopyLoop(result, processed)
    IN Set(Set(copied, "location", Get(processed, "location")),
           "display", Get(processed, "display"))

\* processType(type): the outcome of the call; it returns the one-element
\* array [result]
processType(t) ==
    LET processed == processTypeHelper(t)
    IN IF Returned(processed) THEN Return(<<processReorder(processed[2])>>) ELSE processed

-----------------------------------------------------------------------------
(* The records handed to the classifiers *)

MaxExtra == 1
MaxCalls == 2

\* A location-bearing node of the dump: { path, start: { line, character } }
NodeAt(path, line, character) ==
    Obj(<<P("path", Str(path)),
          P("start", Obj(<<P("line", Num(line)), P("character", Num(character))>>))>>)

Flags(f) == P("flags", Arr(<<Str(f)>>))
NoFlags == P("flags", Arr(<<>>))
Id == P("id", Num(1))
Symbol(s) == P("symbolName", Str(s))
Display(d) == P("display", Str(d))
FirstDeclaration == P("firstDeclaration", NodeAt("c.ts", 5, 6))

\* The properties a parsed record may carry: the fields of the dump, with
\* flags and every other optional field possibly absent, and fields named
\* like the ones the rules synthesize.
RawFields ==
    {Id, P("id", Num(0))}
    \cup {Symbol(s) : s \in {"Foo", "", "__type", "__function", "__class",
                            "__object", "__jsxAttributes", "__@iterator@12", "__@bad"}}
    \cup {P("name", Str("Raw"))}
    \cup {NoFlags}
    \cup {Flags(f) : f \in {"Object", "StringLiteral", "NumberLiteral", "BigIntLiteral",
                           "TypeParameter", "UniqueESSymbol"}}
    \cup {Display(d) : d \in {"\"a\"", "(props: P) => Element"}}
    \cup {P("recursionId", Num(7)), P("intrinsicName", Str("any"))}
    \cup {P("unionTypes", Arr(<<Num(2), Num(3)>>)),
          P("intersectionTypes", Arr(<<Num(2), Num(3)>>)),
          P("indexedAccessObjectType", Num(2)),
          P("keyofType", Num(2)),
          P("isTuple", Bool(TRUE)),
          P("conditionalCheckType", Num(2)),
          P("conditionalTrueType", Num(-1)),
          P("conditionalTrueType", Num(5)),
          P("conditionalFalseType", Num(-1)),
          P("substitutionBaseType", Num(2)),
          P("reverseMappedSourceType", Num(2)),
          P("reverseMappedMappedType", Num(3)),
          P("reverseMappedConstraintType", Num(4))}
    \cup {P("aliasTypeArguments", Arr(a)) : a \in {<<>>, <<Num(2)>>}}
    \cup {P("instantiatedType", Num(n)) : n \in {0, 1, 2}}
    \cup {P("typeArguments", Arr(a)) : a \in {<<>>, <<Num(3)>>}}
    \cup {P("destructuringPattern", NodeAt("a.ts", 1, 2)),
          P("referenceLocation", NodeAt("b.ts", 3, 4)),
          FirstDeclaration,
          P("firstDeclaration", Obj(<<P("path", Str("lib.d.ts"))>>))}
    \cup {P("kind", Str("X")), P("count", Num(9)), P("types", Arr(<<Num(9)>>)),
          P("value", Str("v")), P("originalType", Num(9)), P("sourceType", Num(9)),
          P("mappedType", Num(9)), P("constraintType", Num(9)),
          P("aliasedType", Num(9)), P("aliasedTypeTypeArguments", Arr(<<Num(9)>>)),
          P("location", Str("here"))}

\* Records of the shapes the tracer writes, one or more per rule, in several
\* property orders; JSON.parse may read MaxExtra more properties after them.
Records ==
    { <<>>,
      <<NoFlags>>,
      <<Id>>,
      <<Id, NoFlags>>,
      <<NoFlags, Id>>,
      <<Id, P("intrinsicName", Str("any")), Flags("Object")>>,
      <<Id, Symbol("Foo"), Flags("Object"), P("unionTypes", Arr(<<Num(2), Num(3)>>))>>,
      <<P("unionTypes", Arr(<<Num(2), Num(3)>>)), Id>>,
      <<Id, Symbol("Foo"), P("intersectionTypes", Arr(<<Num(2), Num(3)>>)), NoFlags>>,
      <<Id, P("indexedAccessObjectType", Num(2)), FirstDeclaration, NoFlags>>,
      <<Id, Symbol("Foo"), P("keyofType", Num(2)), NoFlags>>,
      <<Id, P("isTuple", Bool(TRUE)), P("instantiatedType", Num(2)),
        P("typeArguments", Arr(<<Num(3)>>)), Flags("Object")>>,
      <<Id, P("conditionalCheckType", Num(2)), P("conditionalTrueType", Num(5)),
        P("conditionalFalseType", Num(-1)), NoFlags>>,
      <<Id, P("substitutionBaseType", Num(2)), NoFlags>>,
      <<Id, P("reverseMappedSourceType", Num(2)), P("reverseMappedMappedType", Num(3)),
        P("reverseMappedConstraintType", Num(4)), Flags("Object")>>,
      <<Id, Symbol("Foo"), P("aliasTypeArguments", Arr(<<Num(2)>>)),
        P("instantiatedType", Num(2)), P("typeArguments", Arr(<<Num(3)>>)), Flags("Object")>>,
      <<P("typeArguments", Arr(<<Num(3)>>)), P("instantiatedType", Num(1)),
        Symbol("Foo"), Id, FirstDeclaration, Flags("Object")>>,
      <<Id, P("instantiatedType", Num(2)), P("typeArguments", Arr(<<Num(3)>>)),
        Flags("Object")>>,
      <<Id, P("destructuringPattern", NodeAt("a.ts", 1, 2)),
        P("referenceLocation", NodeAt("b.ts", 3, 4)), Flags("Object")>>,
      <<Id, Flags("StringLiteral"), Display("\"a\"")>>,
      <<Display("1"), Flags("NumberLiteral"), Id>>,
      <<Id, Flags("BigIntLiteral"), Display("1n")>>,
      <<Id, Symbol("Foo"), Flags("TypeParameter")>>,
      <<Id, Symbol("unique"), Flags("UniqueESSymbol")>>,
      <<Id, Symbol("__@iterator@12"), Flags("Object")>>,
      <<Id, Symbol("__@bad"), NoFlags>>,
      <<Id, Symbol("__type"), FirstDeclaration, Flags("Object"), Display("{ a: 1 }")>>,
      <<Display("{ a: 1 }"), Flags("Object"), Symbol("__object"), Id>>,
      <<Id, Symbol("__function"), Flags("Object"), Display("() => void")>>,
      <<Id, Symbol("__class"), FirstDeclaration, Flags("Object")>>,
      <<Id, Symbol("__jsxAttributes"), Flags("Object"), Display("{ a: 1 }")>>,
      <<Id, Symbol("Foo"), FirstDeclaration, Flags("Object")>>,
      <<Flags("Object"), Symbol("Foo"), Id>>,
      <<Id, Symbol("Foo")>>,
      <<Id, Symbol("__type")>>,
      <<Id, Flags("Object"), Display("(props: P) => Element")>>,
      <<Display("(props: P) => Element"), Id>>,
      <<Id, NoFlags, Display("{ a: 1 }")>> }

PipelineIdle ==
    /\ input = <<>> /\ lines = <<>> /\ toParse = <<>> /\ toProcess = <<>> /\ toFrame = <<>>
    /\ ended = 0 /\ sawError = FALSE /\ first = TRUE
    /\ written = <<>> /\ emitted = <<>> /\ dropped = <<>>
    /\ itemCount = 0 /\ status = "idle"

Init ==
    /\ type \in Records
    /\ raw = type /\ ptype = type
    /\ results = <<>> /\ presult = <<>>
    /\ PipelineIdle

\* JSON.parse reads one more property of the record
ParseField(f) ==
    /\ status = "idle"
    /\ results = <<>> /\ presult = <<>>
    /\ \E r \in Records : /\ Len(r) <= Len(type)
                           /\ Len(type) < Len(r) + MaxExtra
                           /\ SubSeq(type, 1, Len(r)) = r
    /\ ~Has(type, f[1])
    /\ type' = Append(type, f)
    /\ raw' = type'
    /\ ptype' = type'
    /\ UNCHANGED <<results, presult>>
    /\ UNCHANGED pipeVars

\* simplifyType(type) on the parsed object, and then again on the same
\* object.  A record without an id is not handed to a classifier.
CallSimplifyType ==
    /\ status = "idle"
    /\ Has(type, "id")
    /\ Len(results) < MaxCalls
    /\ results = <<>> \/ presult # <<>>
    /\ results' = Append(results, simplifyType(type))
    /\ type' = simplifyPreprocess(type)
    /\ UNCHANGED <<raw, ptype, presult>>
    /\ UNCHANGED pipeVars

\* processType(ptype) on an equal, separately parsed object
CallProcessType ==
    /\ status = "idle"
    /\ Has(ptype, "id")
    /\ results # <<>>
    /\ presult = <<>>
    /\ presult' = <<processType(ptype)>>
    /\ ptype' = processPreprocess(ptype)
    /\ UNCHANGED <<type, raw, results>>
    /\ UNCHANGED pipeVars

Next ==
    \/ \E f \in RawFields : ParseField(f)
    \/ CallSimplifyType
    \/ CallProcessType

Spec == Init /\ [][Next]_vars

-----------------------------------------------------------------------------
(* src/index.ts: processFile in line mode (args.m unset) and run.  The file
   read, the codecs and split() are outside the model: `lines` holds the
   chunks split(/,?\r?\n/) emits, the write stream receives `written`. *)

MaxLines == 3

\* JSON.stringify(o): the properties holding undefined are left out, at
\* every depth; the others keep their order
Stringify(o) ==
    LET kept == SelectSeq(o, LAMBDA e : e[2] # Undefined)
    IN [i \in 1..Len(kept) |->
           IF kept[i][2][1] = "object"
           THEN <<kept[i][1],
                  Obj(SelectSeq(kept[i][2][2], LAMBDA e : e[2] # Undefined))>>
           ELSE kept[i]]

Text(s) == <<"text", s>>
Json(o) == <<"json", Stringify(o)>>

\* The text of one chunk: the JSON text of an object, or a cut-off piece of
\* one, after an optional "[" and before an optional "]"
Complete(o) == <<"complete", o>>
Partial(o) == <<"partial", o>>
Chunk(open, body, close) == [open |-> open, body |-> body, close |-> close]

\* chunk.replace(/^\[/, "").replace(/\]$/, "")
StripBrackets(chunk) == [chunk EXCEPT !.open = FALSE, !.close = FALSE]

\* JSON.parse(text): the object a complete text denotes; a SyntaxError for a
\* cut-off text and for an unbalanced bracket
JSONparse(text) ==
    IF text.body[1] = "complete" /\ text.open = text.close
    THEN Return(IF text.open THEN <<Obj(text.body[2])>> ELSE text.body[2])
    ELSE Throw("SyntaxError")

\* The line bodies of an input file
LineBodies ==
    { Complete(<<P("id", Num(1)), Symbol("Foo"), Flags("Object"),
                 P("unionTypes", Arr(<<Num(2), Num(3)>>))>>),
      Complete(<<P("id", Num(2)), Symbol("__function"), FirstDeclaration,
                 Flags("Object")>>),
      Complete(<<P("id", Num(3))>>),
      Partial(<<P("id", Num(4))>>) }

RECURSIVE SeqsUpTo(_, _)
SeqsUpTo(S0, n) ==
    IF n = 0 THEN {<<>>}
    ELSE LET shorter == SeqsUpTo(S0, n - 1)
         IN shorter \cup {Append(q, x) : q \in shorter, x \in S0}

\* The chunks of a dump whose bodies are bs: "[" opens the first line and
\* "]" closes the last one
ChunksOf(bs) ==
    [i \in 1..Len(bs) |-> Chunk(i = 1, bs[i], i = Len(bs))]

InitPipeline ==
    /\ type = <<>> /\ raw = <<>> /\ ptype = <<>>
    /\ results = <<>> /\ presult = <<>>
    /\ input \in {ChunksOf(bs) : bs \in SeqsUpTo(LineBodies, MaxLines)}
    /\ lines = input
    /\ toParse = <<>> /\ toProcess = <<>> /\ toFrame = <<>>
    /\ ended = 0 /\ sawError = FALSE /\ first = TRUE
    /\ written = <<>> /\ emitted = <<>> /\ dropped = <<>>
    /\ itemCount = 0
    /\ status = "running"

\* split() emits the next chunk of the file (line 63)
SplitEmit ==
    /\ status = "running"
    /\ lines # <<>>
    /\ toParse' = Append(toParse, Head(lines))
    /\ lines' = Tail(lines)
    /\ UNCHANGED <<toProcess, toFrame, ended, sawError, first, written, emitted,
                   dropped, itemCount, status>>
    /\ UNCHANGED <<input, engineVars>>

\* the input ends: split() has emitted every chunk
SplitEnd ==
    /\ status = "running"
    /\ ended = 0
    /\ lines = <<>>
    /\ ended' = 1
    /\ UNCHANGED <<lines, toParse, toProcess, toFrame, sawError, first, written,
                   emitted, dropped, itemCount, status>>
    /\ UNCHANGED <<input, engineVars>>

\* The JSON stage's transform (lines 68-90) on the next chunk
ParseTransform ==
    /\ status = "running"
    /\ toParse # <<>>
    /\ LET chunk == Head(toParse)
           obj == JSONparse(StripBrackets(chunk))
       IN IF ~sawError /\ Returned(obj)
          THEN /\ toProcess' = Append(toProcess, obj[2])
               /\ UNCHANGED <<sawError, dropped>>
          ELSE /\ sawError' = TRUE
               /\ dropped' = Append(dropped, chunk)
               /\ UNCHANGED toProcess
    /\ toParse' = Tail(toParse)
    /\ UNCHANGED <<lines, toFrame, ended, first, written, emitted, itemCount, status>>
    /\ UNCHANGED <<input, engineVars>>

ParseEnd ==
    /\ status = "running"
    /\ ended = 1
    /\ toParse = <<>>
    /\ ended' = 2
    /\ UNCHANGED <<lines, toParse, toProcess, toFrame, sawError, first, written,
                   emitted, dropped, itemCount, status>>
    /\ UNCHANGED <<input, engineVars>>

\* The processElement stage's transform (lines 96-104) with run's
\* processElement, item => (itemCount++, processType(item)) (line 389).  An
\* exception of processType leaves the transform: the run ends in run's
\* catch ("Error") or as an uncaught exception of the process ("Crashed"),
\* as the stream implementation has it.
ProcessTransform ==
    /\ status = "running"
    /\ toProcess # <<>>
    /\ itemCount' = itemCount + 1
    /\ LET out == processType(Head(toProcess))
       IN IF Returned(out)
          THEN /\ toFrame' = toFrame \o out[2]
               /\ UNCHANGED status
          ELSE /\ status' \in {"Error", "Crashed"}
               /\ UNCHANGED toFrame
    /\ toProcess' = Tail(toProcess)
    /\ UNCHANGED <<lines, toParse, ended, sawError, first, written, emitted, dropped>>
    /\ UNCHANGED <<input, engineVars>>

ProcessEnd ==
    /\ status = "running"
    /\ ended = 2
    /\ toProcess = <<>>
    /\ ended' = 3
    /\ UNCHANGED <<lines, toParse, toProcess, toFrame, sawError, first, written,
                   emitted, dropped, itemCount, status>>
    /\ UNCHANGED <<input, engineVars>>

\* The framing stage's transform (lines 110-122)
FrameTransform ==
    /\ status = "running"
    /\ toFrame # <<>>
    /\ first' = FALSE
    /\ written' = written \o <<IF first THEN Text("[") ELSE Text(",\n"),
                                Json(Head(toFrame))>>
    /\ emitted' = Append(emitted, Head(toFrame))
    /\ toFrame' = Tail(toFrame)
    /\ UNCHANGED <<lines, toParse, toProcess, ended, sawError, dropped, itemCount, status>>
    /\ UNCHANGED <<input, engineVars>>

\* The framing stage's flush (lines 123-125), once its input has ended
FrameFlush ==
    /\ status = "running"
    /\ ended = 3
    /\ toFrame = <<>>
    /\ written' = Append(written, Text("]"))
    /\ ended' = 4
    /\ UNCHANGED <<lines, toParse, toProcess, toFrame, sawError, first, emitted,
                   dropped, itemCount, status>>
    /\ UNCHANGED <<input, engineVars>>

\* The write stream finishes, pipeline() resolves and run logs "Done" (line 390)
Finish ==
    /\ status = "running"
    /\ ended = 4
    /\ status' = "Done"
    /\ UNCHANGED <<lines, toParse, toProcess, toFrame, ended, sawError, first,
                   written, emitted, dropped, itemCount>>
    /\ UNCHANGED <<input, engineVars>>

NextPipeline ==
    \/ SplitEmit
    \/ SplitEnd
    \/ ParseTransform
    \/ ParseEnd
    \/ ProcessTransform
    \/ ProcessEnd
    \/ FrameTransform
    \/ FrameFlush
    \/ Finish

SpecPipeline == InitPipeline /\ [][NextPipeline]_vars

-----------------------------------------------------------------------------
(* The rule table of section 4.1 of the specification, read off a raw
   record r as JSON.parse delivers it (a field is present when r has it). *)

\* the name of the record once symbolName is renamed to name
TableName(r) == Get(r, "symbolName")
TableNamed(r) == Truthy(TableName(r))
TableFlag(r, f) == Has(r, "flags") /\ Includes(Get(r, "flags"), f)

TableCondition(r, n) ==
    CASE n = 1 -> Has(r, "intrinsicName")
      [] n = 2 -> Has(r, "unionTypes")
      [] n = 3 -> Has(r, "intersectionTypes")
      [] n = 4 -> Has(r, "indexedAccessObjectType")
      [] n = 5 -> Has(r, "keyofType")
      [] n = 6 -> Truthy(Get(r, "isTuple"))
      [] n = 7 -> Has(r, "conditionalCheckType")
      [] n = 8 -> Has(r, "substitutionBaseType")
      [] n = 9 -> Has(r, "reverseMappedSourceType")
      [] n = 10 -> Has(r, "aliasTypeArguments")
      [] n = 11 -> /\ Has(r, "instantiatedType")
                   /\ Has(r, "typeArguments")
                   /\ Length(Get(r, "typeArguments")) > 0
      [] n = 12 -> Has(r, "destructuringPattern")
      [] n = 13 -> TableFlag(r, "StringLiteral")
      [] n = 14 -> TableFlag(r, "NumberLiteral")
      [] n = 15 -> TableFlag(r, "BigIntLiteral")
      [] n = 16 -> TableFlag(r, "TypeParameter")
      [] n = 17 -> TableFlag(r, "UniqueESSymbol")
      [] n = 18 -> TableNamed(r) /\ StartsWith(TableName(r)[2], "__@")
      [] n = 19 -> TableName(r) \in {Str("__function"), Str("__type"),
                                    Str("__class"), Str("__object")}
      [] n = 20 -> TableName(r) = Str("__jsxAttributes")
      [] n = 21 -> TableFlag(r, "Object") /\ TableNamed(r)
      [] n = 22 -> /\ Has(r, "display")
                   /\ StartsWith(Get(r, "display")[2], "(props:")
                   /\ EndsWith(Get(r, "display")[2], "=> Element")
      [] OTHER -> TRUE

\* the lowest-numbered rule whose condition holds
TableRule(r) ==
    CHOOSE n \in 1..23 : TableCondition(r, n) /\ \A m \in 1..(n - 1) : ~TableCondition(r, m)

TableAliased(r, kind) == IF TableNamed(r) THEN "Aliased" \o kind ELSE kind

TableKind(r) ==
    LET n == TableRule(r)
    IN CASE n = 1 -> "Intrinsic"
         [] n = 2 -> TableAliased(r, "Union")
         [] n = 3 -> TableAliased(r, "Intersection")
         [] n = 4 -> TableAliased(r, "IndexedAccess")
         [] n = 5 -> TableAliased(r, "IndexType")
         [] n = 6 -> TableAliased(r, "Tuple")
         [] n = 7 -> TableAliased(r, "ConditionalType")
         [] n = 8 -> TableAliased(r, "SubstitutionType")
         [] n = 9 -> TableAliased(r, "ReverseMappedType")
         [] n = 10 -> "GenericTypeAlias"
         [] n = 11 -> IF Get(r, "instantiatedType") = Get(r, "id")
                      THEN "GenericType" ELSE "GenericInstantiation"
         [] n = 12 -> "Destructuring"
         [] n = 13 -> "StringLiteral"
         [] n = 14 -> "NumberLiteral"
         [] n = 15 -> "BigIntLiteral"
         [] n = 16 -> "TypeParameter"
         [] n = 17 -> "Unique"
         [] n = 18 -> "KnownSymbol"
         [] n = 19 -> CASE TableName(r) = Str("__function") -> "AnonymousFunction"
                        [] TableName(r) = Str("__type") -> "AnonymousType"
                        [] TableName(r) = Str("__class") -> "AnonymousClass"
                        [] OTHER -> "AnonymousObject"
         [] n = 20 -> "JsxAttributesType"
         [] n = 21 -> "Object"
         [] n = 22 -> "JsxElementSignature"
         [] OTHER -> "Other"

Structural == {"Union", "Intersection", "IndexedAccess", "IndexType", "Tuple",
               "ConditionalType", "SubstitutionType", "ReverseMappedType"}

\* the fixed vocabulary of kinds
KindVocabulary ==
    Structural \cup {"Aliased" \o k : k \in Structural}
    \cup {"Intrinsic", "GenericTypeAlias", "GenericType", "GenericInstantiation",
          "Destructuring", "StringLiteral", "NumberLiteral", "BigIntLiteral",
          "TypeParameter", "Unique", "KnownSymbol", "AnonymousFunction",
          "AnonymousType", "AnonymousClass", "AnonymousObject", "JsxAttributesType",
          "Object", "JsxElementSignature", "Other"}

HasKindOfVocabulary(o) ==
    Get(o, "kind")[1] = "string" /\ Get(o, "kind")[2] \in KindVocabulary

-----------------------------------------------------------------------------
(* Claims *)

\* C1 (totality): every record with an id, whatever optional fields it has
\* or lacks, makes simplifyType and processType return, without raising,
\* one record whose kind is a string of the fixed vocabulary.
C1_Totality ==
    /\ results # <<>> =>
          Returned(results[1]) /\ HasKindOfVocabulary(results[1][2])
    /\ presult # <<>> =>
          /\ Returned(presult[1])
          /\ Len(presult[1][2]) = 1
          /\ HasKindOfVocabulary(presult[1][2][1])

\* C2 (determinism): two successive calls of simplifyType on the same record
\* return identical records, and a call leaves the fields of the record it
\* was given as they were.
C2_Determinism ==
    /\ Len(results) >= 2 => results[2] = results[1]
    /\ results # <<>> => type = raw
    /\ presult # <<>> => ptype = raw

\* C3 (priority ordering): the kind simplifyType produces is the kind of the
\* lowest-numbered rule of the table whose condition holds for the record.
C3_PriorityOrdering ==
    \A out \in {results[i][2] : i \in {j \in {1} : results # <<>> /\ Returned(results[j])}} :
        Get(out, "kind") = Str(TableKind(raw))

\* the fields preprocessing removes, the fields a rule may set, and the
\* fields rule n drops or renames
PreprocessDropped ==
    {"symbolName", "destructuringPattern", "referenceLocation", "firstDeclaration",
     "flags", "display", "recursionId"}
RuleSet ==
    {"kind", "count", "types", "value", "originalType", "sourceType", "mappedType",
     "constraintType", "aliasedType", "aliasedTypeTypeArguments", "location"}
RuleRenamed(n) ==
    CASE n = 1 -> {"intrinsicName"}
      [] n = 2 -> {"unionTypes"}
      [] n = 3 -> {"intersectionTypes"}
      [] n = 6 -> {"isTuple"}
      [] n = 8 -> {"substitutionBaseType"}
      [] n = 9 -> {"reverseMappedSourceType", "reverseMappedMappedType",
                   "reverseMappedConstraintType"}
      [] n = 10 -> {"instantiatedType", "typeArguments"}
      [] OTHER -> {}
RuleDropped(n) ==
    RuleRenamed(n) \cup
    CASE n = 1 -> {"name"}
      [] n = 7 -> {"conditionalTrueType", "conditionalFalseType"}
      [] n = 11 -> {"instantiatedType"}
      [] n \in {18, 19, 20} -> {"name"}
      [] OTHER -> {}

\* C4 (field preservation): a field of the raw record that neither
\* preprocessing nor the deciding rule drops, renames or sets is on the
\* output with its value (a raw name is kept when no symbolName replaces
\* it), and a renamed field is not also left under its old name.
C4_FieldPreservation ==
    \A out \in {results[i][2] : i \in {j \in {1} : results # <<>> /\ Returned(results[j])}} :
        LET n == TableRule(raw)
        IN /\ \A i \in 1..Len(raw) :
                  (/\ raw[i][1] \notin PreprocessDropped \cup RuleSet \cup RuleDropped(n)
                   /\ raw[i][1] = "name" => ~Has(raw, "symbolName"))
                  => Get(out, raw[i][1]) = raw[i][2]
           /\ \A k \in RuleRenamed(n) : Get(out, k) = Undefined

LeadingFields ==
    <<"id", "kind", "name", "aliasTypeArguments", "instantiatedType", "typeArguments">>

Position(keys, k) == CHOOSE i \in 1..Len(keys) : keys[i] = k

\* The keys of a returned object out, for the classified record processed
\* it was built from: the six leading names, then the other fields of
\* processed, each once and in the order processed introduced them, then
\* location, then display; JSON.stringify keeps that order.
FieldOrder(out, processed) ==
    LET keys == Keys(out)
        n == Len(keys)
        text == Keys(Stringify(out))
        others == SelectSeq(Keys(processed),
                            LAMBDA k : /\ k \notin {"location", "display"}
                                       /\ \A i \in 1..6 : LeadingFields[i] # k)
    IN /\ n >= 8
       /\ SubSeq(keys, 1, 6) = LeadingFields
       /\ SubSeq(keys, 7, n - 2) = others
       /\ keys[n - 1] = "location"
       /\ keys[n] = "display"
       /\ \A i, j \in 1..n : keys[i] = keys[j] => i = j
       /\ \A i, j \in 1..Len(text) :
             i < j => Position(keys, text[i]) < Position(keys, text[j])

\* C5 (field order): whatever the order of the input fields, the object
\* simplifyType or processType returns lists id, kind, name,
\* aliasTypeArguments, instantiatedType, typeArguments, then the other
\* fields in the order of their introduction, then location, then display,
\* also when a leading field holds a falsy value.
C5_FieldOrder ==
    /\ results # <<>> /\ Returned(results[1]) =>
          FieldOrder(results[1][2], simplifyTypeHelper(raw)[2])
    /\ presult # <<>> /\ Returned(presult[1]) =>
          FieldOrder(presult[1][2][1], processTypeHelper(raw)[2])

\* C5 happens: a record whose first field is not id and whose name is the
\* empty string, a falsy leading value the copy loop assigns again, has
\* been classified by both functions.
C5_Witness ==
    /\ presult # <<>> /\ Returned(presult[1])
    /\ results # <<>> /\ Returned(results[1])
    /\ raw[1][1] # "id"
    /\ Get(raw, "symbolName") = Str("")
    /\ Get(results[1][2], "name") = Str("")
    /\ Get(presult[1][2][1], "name") = Str("")

\* the bodies of the input file are all complete JSON objects
AllComplete == \A i \in 1..Len(input) : input[i].body[1] = "complete"

\* C6 (pipeline round trip): when every one of the k lines is a JSON object,
\* the finished run has emitted k records, the i-th being the table's
\* classification of the i-th line, and has counted k items.
C6_RoundTrip ==
    (status \notin {"idle", "running"} /\ AllComplete) =>
        /\ Len(emitted) = Len(input)
        /\ itemCount = Len(input)
        /\ \A i \in 1..Len(emitted) :
              /\ Get(emitted[i], "id") = Get(input[i].body[2], "id")
              /\ Get(emitted[i], "kind") = Str(TableKind(input[i].body[2]))

\* the records joined by the separator
RECURSIVE Joined(_)
Joined(rs) ==
    IF rs = <<>> THEN <<>>
    ELSE IF Len(rs) = 1 THEN <<Json(rs[1])>>
    ELSE <<Json(rs[1]), Text(",\n")>> \o Joined(Tail(rs))

\* C7 (output framing): a completed run has written "[", the k stringified
\* records with a separator between neighbours, and "]", for every k >= 0.
C7_Framing ==
    status = "Done" => written = <<Text("[")>> \o Joined(emitted) \o <<Text("]")>>

\* the position of the first chunk that does not parse, 0 when all do
FirstBad ==
    IF AllComplete THEN 0
    ELSE CHOOSE j \in 1..Len(input) :
            /\ input[j].body[1] # "complete"
            /\ \A i \in 1..(j - 1) : input[i].body[1] = "complete"

\* C8 (parse-error latch): when line j is the first that fails to parse, the
\* run does not abort; it ends with Done, lines j and later dropped, the
\* lines before j classified and emitted, and j - 1 items counted.
C8_ParseErrorLatch ==
    (status \notin {"idle", "running"} /\ ~AllComplete) =>
        /\ status = "Done"
        /\ sawError
        /\ dropped = SubSeq(input, FirstBad, Len(input))
        /\ itemCount = FirstBad - 1
        /\ Len(emitted) = FirstBad - 1
        /\ \A i \in 1..Len(emitted) :
              Get(emitted[i], "id") = Get(input[i].body[2], "id")

\* C9 (override precedence): every field the deciding rule sets has the
\* value the rule states, also when the raw record has a field of that name.
C9_OverridePrecedence ==
    \A out \in {results[i][2] : i \in {j \in {1} : results # <<>> /\ Returned(results[j])}} :
        LET n == TableRule(raw)
        IN /\ Get(out, "kind") = Str(TableKind(raw))
           /\ n = 2 => /\ Get(out, "count") = Num(Length(Get(raw, "unionTypes")))
                       /\ Get(out, "types") = Get(raw, "unionTypes")
           /\ n = 3 => /\ Get(out, "count") = Num(Length(Get(raw, "intersectionTypes")))
                       /\ Get(out, "types") = Get(raw, "intersectionTypes")
           /\ n = 8 => Get(out, "originalType") = Get(raw, "substitutionBaseType")
           /\ n = 9 => /\ Get(out, "sourceType") = Get(raw, "reverseMappedSourceType")
                       /\ Get(out, "mappedType") = Get(raw, "reverseMappedMappedType")
                       /\ Get(out, "constraintType") = Get(raw, "reverseMappedConstraintType")
           /\ n = 10 => /\ Get(out, "aliasedType") = Get(raw, "instantiatedType")
                        /\ Get(out, "aliasedTypeTypeArguments") = Get(raw, "typeArguments")
           /\ n \in {13, 14, 15} => Get(out, "value") = Get(raw, "display")

\* both classifiers have been called on the record and agree: both raise, or
\* processType returns the one-element array of what simplifyType returns
Agree ==
    IF Returned(results[1])
    THEN Returned(presult[1]) /\ presult[1][2] = <<results[1][2]>>
    ELSE presult[1] = results[1]

BothCalled == results # <<>> /\ presult # <<>>

OnlySimplifyNames(name) ==
    \/ name \in {Str("__function"), Str("__class"), Str("__jsxAttributes")}
    \/ name # Undefined /\ StartsWith(name[2], "__@")

=============================================================================
